---- MODULE Spec2Model ----
(***************************************************************************)
(* The admin crawl job control of devops-custom-roadmap.                   *)
(*                                                                         *)
(*   POST /api/admin/crawl/start   (src/unnamed/part_005)                  *)
(*   GET  /api/admin/crawl/status  (src/app/api/admin/crawl/status)        *)
(*                                                                         *)
(* The start route keeps a module-level Map, activeCrawls, of job records  *)
(* keyed by a uuid, spawns one python worker per job and updates the       *)
(* record from the worker's stdout and close events.  The status route     *)
(* reads the same Map.  Node runs every handler to completion, so each     *)
(* handler is one action.                                                  *)
(***************************************************************************)
EXTENDS Integers, FiniteSets, Sequences, TLC

VARIABLES
    activeCrawls,   \* the Map jobId -> job record (part_005:8)
    pythonProcess,  \* per job id: the spawned worker, "none" | "running" | "closed"
    cleanupTimer,   \* per job id: the setTimeout of the close handler, "none" | "pending" | "fired"
    response,       \* the response given to the last HTTP request handled
    \* POST /api/admin/crawl/custom, one request and what its closure holds
    \* (requests share nothing: each has its own process, buffers, timer and promise)
    crawlRequest,   \* the type of the request in flight, "none" before any
    crawlerProcess, \* the spawned crawler: its state, script and url flag
    crawlStdout,    \* let stdout: the chunks appended so far
    crawlStderr,    \* let stderr: the chunks appended so far
    crawlTimeout,   \* the setTimeout of 2 minutes: "none" | "pending" | "fired"
    crawlResult,    \* the promise awaited by POST: Pending or the value it resolved with
    crawlResponse,  \* the response given to the request, NoResponse while awaited
    crawlAnswers,   \* how many responses the request was given
    \* The content store and the workers that write it
    aws_content,    \* table public.aws_content: its rows, in insertion order
    isNew,          \* per crawl run: the candidate it looked up and what it found
    batch,          \* per job: what processBatch of its worker selected and has left
    \* CrawlControlPanel, one page in one browser
    panelStatus,    \* useState<CrawlStatus> status: isRunning, operation, progress, message
    interval,       \* the setInterval of pollCrawlStatus, and the jobId it polls
    lastProgress,   \* history: the progress the status route reported to the last poll
    \* The RateLimiter the crawlers call before each request
    clock,          \* wall-clock time, in seconds
    nextFree,       \* per process and source key: the earliest next dispatch
    waiting,        \* per crawler: the acquire it is blocked in, if any
    lastDispatch    \* history: per source key, when a request was last dispatched

jobVars == <<activeCrawls, pythonProcess, cleanupTimer, response>>

customVars == <<crawlRequest, crawlerProcess, crawlStdout, crawlStderr,
                crawlTimeout, crawlResult, crawlResponse, crawlAnswers>>

storeVars == <<aws_content, isNew, batch>>

panelVars == <<panelStatus, interval, lastProgress>>

limiterVars == <<clock, nextFree, waiting, lastDispatch>>

vars == <<activeCrawls, pythonProcess, cleanupTimer, response,
          crawlRequest, crawlerProcess, crawlStdout, crawlStderr,
          crawlTimeout, crawlResult, crawlResponse, crawlAnswers,
          aws_content, isNew, batch,
          panelStatus, interval, lastProgress,
          clock, nextFree, waiting, lastDispatch>>

(***************************************************************************)
(* Bounds and input sets.                                                  *)
(***************************************************************************)
\* How many job ids uuidv4 can hand out in one run of the model.
MaxJobs == 2

JobIds == 1..MaxJobs

\* A job id no start has issued (a random id typed by a caller).
UnknownJobId == MaxJobs + 1

\* searchParams.get("jobId") when the parameter is absent (null).
NoJobId == 0

QueryJobIds == JobIds \cup {UnknownJobId, NoJobId}

ValidOperations == {"daily-update", "full-crawl", "process-content"}

\* The operations callers send in the model: a crawl and a
\* processing operation (the route treats the three valid names alike: the
\* name only flows into the record, the messages and the worker's arguments),
\* "" for a body without an operation (undefined, falsy), and a name the
\* route does not know.
RequestOperations == {"daily-update", "process-content", "", "delete-all"}

\* Who calls: user is whether supabase.auth.getUser() yields a user, role and
\* emailHasAdmin are what the user_profiles row holds.
Callers ==
    { [user |-> FALSE, role |-> "none",  emailHasAdmin |-> FALSE],
      [user |-> TRUE,  role |-> "user",  emailHasAdmin |-> FALSE],
      [user |-> TRUE,  role |-> "user",  emailHasAdmin |-> TRUE],
      [user |-> TRUE,  role |-> "admin", emailHasAdmin |-> FALSE] }

\* The exit code handed to the close handler, as `${code}` renders it:
\* "0" a clean exit, "1" an error exit, "null" a worker killed by a signal.
ExitCodes == {"0", "1", "null"}

\* The four substrings the stdout handler looks for.
Markers == {"Crawling AWS Blogs", "Crawling AWS YouTube",
            "Crawling AWS Documentation", "Processing content"}

\* A stdout chunk, identified by the markers its text includes: none, one
\* of them, or all four (several log lines in one chunk).
Chunks == {{}} \cup {{m} : m \in Markers} \cup {Markers}

(***************************************************************************)
(* Helpers on job records.  A job record is a function from field names;   *)
(* an optional field (stats, error) is absent from its domain until set.   *)
(***************************************************************************)
Assign(obj, field, value) ==
    [f \in DOMAIN obj \cup {field} |-> IF f = field THEN value ELSE obj[f]]

Has(obj, field) == field \in DOMAIN obj

\* `Starting ${operation}...`
StartingMessage(operation) ==
    CASE operation = "daily-update"    -> "Starting daily-update..."
      [] operation = "full-crawl"      -> "Starting full-crawl..."
      [] operation = "process-content" -> "Starting process-content..."
      [] operation = "delete-all"      -> "Starting delete-all..."
      [] OTHER                         -> "Starting ..."

\* `Process exited with code ${code}`
ExitError(code) ==
    CASE code = "0"    -> "Process exited with code 0"
      [] code = "1"    -> "Process exited with code 1"
      [] code = "null" -> "Process exited with code null"

\* A bug: a total that counts an item no other counter counts.
EmptyStats_unbalanced == [total_processed |-> 1, successful |-> 0, failed |-> 0, duplicates |-> 0]

\* The stats the close handler writes for exit code 0 (the worker's own
\* counts are not parsed).
EmptyStats == [total_processed |-> 0, successful |-> 0, failed |-> 0, duplicates |-> 0]

(***************************************************************************)
(* Authentication gate shared by the routes.                               *)
(***************************************************************************)
IsAdmin(caller) == caller.role = "admin" \/ caller.emailHasAdmin

\* 0 when the caller passes, else the status the route answers with.
AuthGate(caller) ==
    IF ~caller.user THEN 401
    ELSE IF ~IsAdmin(caller) THEN 403
    ELSE 0

\* The callers the gate lets through.
Admins == {caller \in Callers : AuthGate(caller) = 0}

AuthError(code) ==
    IF code = 401 THEN "Unauthorized" ELSE "Forbidden: Admin access required"

(***************************************************************************)
(* POST /api/admin/crawl/start                                             *)
(***************************************************************************)
\* A bug: the membership test forgotten, any truthy name accepted.
IsValidOperation_truthy(operation) == operation # ""

\* !operation || ![...].includes(operation), negated
IsValidOperation(operation) ==
    operation # "" /\ operation \in ValidOperations

\* A bug: an id generator that can repeat itself.
uuidv4_reused == JobIds

\* A bug: an id generator that gives out again the id of a purged job.
uuidv4_afterPurge ==
    {id \in JobIds : pythonProcess[id] = "none" \/ cleanupTimer[id] = "fired"}

\* The ids uuidv4() may return: any id it has not returned before.

uuidv4 == {id \in JobIds : pythonProcess[id] = "none"}

InvalidOperationError ==
    "Invalid operation. Must be: daily-update, full-crawl, or process-content"

\* `Started ${operation} operation`
StartedMessage(operation) ==
    CASE operation = "daily-update"    -> "Started daily-update operation"
      [] operation = "full-crawl"      -> "Started full-crawl operation"
      [] operation = "process-content" -> "Started process-content operation"
      [] operation = "delete-all"      -> "Started delete-all operation"
      [] OTHER                         -> "Started  operation"

\* A bug: the record created in the pending state of the design's state machine.
InitialJob_pending(jobId, operation) ==
    [jobId     |-> jobId,
     operation |-> operation,
     status    |-> "pending",
     progress  |-> 0,
     message   |-> StartingMessage(operation)]

InitialJob(jobId, operation) ==
    [jobId     |-> jobId,
     operation |-> operation,
     status    |-> "running",
     progress  |-> 0,
     message   |-> StartingMessage(operation)]

StartRoute(caller, operation) ==
    LET gate == AuthGate(caller)
    IN  IF gate # 0
        THEN /\ response' = [status |-> gate, error |-> AuthError(gate)]
             /\ UNCHANGED <<activeCrawls, pythonProcess, cleanupTimer>>
             /\ UNCHANGED <<customVars, storeVars, limiterVars>>
        ELSE IF ~IsValidOperation(operation)
        THEN /\ response' = [status |-> 400, error |-> InvalidOperationError]
             /\ UNCHANGED <<activeCrawls, pythonProcess, cleanupTimer>>
             /\ UNCHANGED <<customVars, storeVars, limiterVars>>
        ELSE \E jobId \in uuidv4 :
             /\ activeCrawls' = Assign(activeCrawls, jobId, InitialJob(jobId, operation))
             /\ pythonProcess' = [pythonProcess EXCEPT ![jobId] = "running"]
             /\ UNCHANGED cleanupTimer
             /\ UNCHANGED <<customVars, storeVars, limiterVars>>
             /\ response' = [status |-> 200, success |-> TRUE, jobId |-> jobId,
                             message |-> StartedMessage(operation)]

\* A start request from any client.
Start(caller, operation) ==
    /\ StartRoute(caller, operation)
    /\ UNCHANGED panelVars

(***************************************************************************)
(* Worker events.                                                          *)
(***************************************************************************)
\* A bug: the stage branches set the progress and leave the message.
OnStdout_noMessage(crawlJob, message) ==
    IF "Crawling AWS Blogs" \in message
    THEN [crawlJob EXCEPT !.progress = 25]
    ELSE IF "Crawling AWS YouTube" \in message
    THEN [crawlJob EXCEPT !.progress = 50]
    ELSE IF "Crawling AWS Documentation" \in message
    THEN [crawlJob EXCEPT !.progress = 75]
    ELSE IF "Processing content" \in message
    THEN [crawlJob EXCEPT !.progress = 90]
    ELSE crawlJob

\* A bug: a chunk with no marker is shown as the job's message.
OnStdout_echo(crawlJob, message) ==
    IF "Crawling AWS Blogs" \in message
    THEN [crawlJob EXCEPT !.progress = 25, !.message = "Crawling AWS Blogs..."]
    ELSE IF "Crawling AWS YouTube" \in message
    THEN [crawlJob EXCEPT !.progress = 50, !.message = "Crawling YouTube videos..."]
    ELSE IF "Crawling AWS Documentation" \in message
    THEN [crawlJob EXCEPT !.progress = 75, !.message = "Crawling AWS Documentation..."]
    ELSE IF "Processing content" \in message
    THEN [crawlJob EXCEPT !.progress = 90, !.message = "Processing content with AI..."]
    ELSE [crawlJob EXCEPT !.message = "worker output"]

\* The stdout handler: the first marker the chunk includes decides.
OnStdout(crawlJob, message) ==
    IF "Crawling AWS Blogs" \in message
    THEN [crawlJob EXCEPT !.progress = 25, !.message = "Crawling AWS Blogs..."]
    ELSE IF "Crawling AWS YouTube" \in message
    THEN [crawlJob EXCEPT !.progress = 50, !.message = "Crawling YouTube videos..."]
    ELSE IF "Crawling AWS Documentation" \in message
    THEN [crawlJob EXCEPT !.progress = 75, !.message = "Crawling AWS Documentation..."]
    ELSE IF "Processing content" \in message
    THEN [crawlJob EXCEPT !.progress = 90, !.message = "Processing content with AI..."]
    ELSE crawlJob

\* pythonProcess.stdout.on("data"): only while the worker's streams are open.
StdoutData(jobId, message) ==
    /\ pythonProcess[jobId] = "running"
    /\ activeCrawls' =
         IF jobId \in DOMAIN activeCrawls
         THEN Assign(activeCrawls, jobId, OnStdout(activeCrawls[jobId], message))
         ELSE activeCrawls
    /\ UNCHANGED <<pythonProcess, cleanupTimer, response>>
    /\ UNCHANGED <<customVars, storeVars, panelVars, limiterVars>>

\* pythonProcess.stderr.on("data"): logs and nothing else.
StderrData(jobId) ==
    /\ pythonProcess[jobId] = "running"
    /\ UNCHANGED vars

\* A bug: the failed branch leaves the progress the job had reached.
OnClose_failKeepsProgress(crawlJob, code) ==
    IF code = "0"
    THEN Assign(Assign(Assign(Assign(crawlJob,
             "status", "completed"),
             "progress", 100),
             "message", "Crawl completed successfully!"),
             "stats", EmptyStats)
    ELSE Assign(Assign(Assign(crawlJob,
             "status", "failed"),
             "message", "Crawl failed"),
             "error", ExitError(code))

\* A bug: the completed branch forgets the progress.
OnClose_keepsProgress(crawlJob, code) ==
    IF code = "0"
    THEN Assign(Assign(Assign(crawlJob,
             "status", "completed"),
             "message", "Crawl completed successfully!"),
             "stats", EmptyStats)
    ELSE Assign(Assign(Assign(Assign(crawlJob,
             "status", "failed"),
             "progress", 0),
             "message", "Crawl failed"),
             "error", ExitError(code))

\* A bug: code === 0 tested loosely, a signal exit (null) taken for success.
OnClose_nullIsSuccess(crawlJob, code) ==
    IF code \in {"0", "null"}
    THEN Assign(Assign(Assign(Assign(crawlJob,
             "status", "completed"),
             "progress", 100),
             "message", "Crawl completed successfully!"),
             "stats", EmptyStats)
    ELSE Assign(Assign(Assign(Assign(crawlJob,
             "status", "failed"),
             "progress", 0),
             "message", "Crawl failed"),
             "error", ExitError(code))

OnClose(crawlJob, code) ==
    IF code = "0"
    THEN Assign(Assign(Assign(Assign(crawlJob,
             "status", "completed"),
             "progress", 100),
             "message", "Crawl completed successfully!"),
             "stats", EmptyStats)
    ELSE Assign(Assign(Assign(Assign(crawlJob,
             "status", "failed"),
             "progress", 0),
             "message", "Crawl failed"),
             "error", ExitError(code))

\* pythonProcess.on("close"): emitted once, after the process ended and its
\* streams closed.
Close(jobId, code) ==
    /\ pythonProcess[jobId] = "running"
    /\ activeCrawls' =
         IF jobId \in DOMAIN activeCrawls
         THEN Assign(activeCrawls, jobId, OnClose(activeCrawls[jobId], code))
         ELSE activeCrawls
    /\ pythonProcess' = [pythonProcess EXCEPT ![jobId] = "closed"]
    /\ cleanupTimer' = [cleanupTimer EXCEPT ![jobId] = "pending"]
    /\ UNCHANGED response
    /\ UNCHANGED <<customVars, storeVars, panelVars, limiterVars>>

\* A bug: setTimeout placed beside the handlers, armed when the worker is spawned.
TimerArmed_atSpawn(jobId) ==
    \/ cleanupTimer[jobId] = "pending"
    \/ pythonProcess[jobId] = "running" /\ cleanupTimer[jobId] = "none"

\* setTimeout is called inside the close handler: a timer waits only after a close.
TimerArmed(jobId) == cleanupTimer[jobId] = "pending"

\* A bug: the timer fires and deletes under another key, removing nothing.
Purge_wrongKey(jobId) ==
    /\ TimerArmed(jobId)
    /\ cleanupTimer' = [cleanupTimer EXCEPT ![jobId] = "fired"]
    /\ UNCHANGED <<activeCrawls, pythonProcess, response>>
    /\ UNCHANGED <<customVars, storeVars, panelVars, limiterVars>>

\* A bug: the timer callback empties the Map (activeCrawls.clear()).
Purge_clear(jobId) ==
    /\ TimerArmed(jobId)
    /\ activeCrawls' = <<>>
    /\ cleanupTimer' = [cleanupTimer EXCEPT ![jobId] = "fired"]
    /\ UNCHANGED <<pythonProcess, response>>
    /\ UNCHANGED <<customVars, storeVars, panelVars, limiterVars>>

\* The timer armed by the close handler fires: activeCrawls.delete(jobId).
Purge(jobId) ==
    /\ TimerArmed(jobId)
    /\ activeCrawls' = [id \in DOMAIN activeCrawls \ {jobId} |-> activeCrawls[id]]
    /\ cleanupTimer' = [cleanupTimer EXCEPT ![jobId] = "fired"]
    /\ UNCHANGED <<pythonProcess, response>>
    /\ UNCHANGED <<customVars, storeVars, panelVars, limiterVars>>

(***************************************************************************)
(* GET /api/admin/crawl/status                                             *)
(***************************************************************************)
\* NextResponse.json of the job: undefined stats / error are left out.
StatusBody(crawlJob) ==
    [f \in DOMAIN crawlJob \cup {"success"} |->
        IF f = "success" THEN TRUE ELSE crawlJob[f]]

\* A bug: the `if (!crawlJob)` test missing, reading crawlJob.jobId throws
\* and the catch block answers 500.
StatusResponse_throws(crawls, jobId) ==
    IF jobId = NoJobId
    THEN [status |-> 400, error |-> "Missing jobId parameter"]
    ELSE IF jobId \notin DOMAIN crawls
    THEN [status |-> 500, error |-> "Failed to fetch status"]
    ELSE [status |-> 200, body |-> StatusBody(crawls[jobId])]

StatusResponse(crawls, jobId) ==
    IF jobId = NoJobId
    THEN [status |-> 400, error |-> "Missing jobId parameter"]
    ELSE IF jobId \notin DOMAIN crawls
    THEN [status |-> 404, error |-> "Job not found or expired"]
    ELSE [status |-> 200, body |-> StatusBody(crawls[jobId])]

\* A bug: a read that consumes, deleting a finished job once it was reported.
GetStatus_consumes(caller, jobId) ==
    LET gate == AuthGate(caller)
        done == /\ gate = 0
                /\ jobId \in DOMAIN activeCrawls
                /\ activeCrawls[jobId].status # "running"
    IN  /\ response' = IF gate # 0
                       THEN [status |-> gate, error |-> AuthError(gate)]
                       ELSE StatusResponse(activeCrawls, jobId)
        /\ activeCrawls' = IF done
                           THEN [id \in DOMAIN activeCrawls \ {jobId} |-> activeCrawls[id]]
                           ELSE activeCrawls
        /\ UNCHANGED <<pythonProcess, cleanupTimer>>
        /\ UNCHANGED <<customVars, storeVars, panelVars, limiterVars>>

StatusRoute(caller, jobId) ==
    LET gate == AuthGate(caller)
    IN  /\ response' = IF gate # 0
                       THEN [status |-> gate, error |-> AuthError(gate)]
                       ELSE StatusResponse(activeCrawls, jobId)
        /\ UNCHANGED <<activeCrawls, pythonProcess, cleanupTimer>>
        /\ UNCHANGED <<customVars, storeVars, limiterVars>>

\* A status query from any client.
GetStatus(caller, jobId) ==
    /\ StatusRoute(caller, jobId)
    /\ UNCHANGED panelVars

(***************************************************************************)
(* POST /api/admin/crawl/custom                                            *)
(*                                                                         *)
(* A text (stdout, stderr, an error message) is the sequence of the chunks *)
(* it was put together from; the empty text is <<>>.                       *)
(***************************************************************************)
\* Before any request: no response yet.
NoResponse == [status |-> 0]

\* The chunks one crawler writes to one stream, at most.
MaxOutput == 2

ValidTypes == {"blog", "video", "playlist"}

\* body.type: a valid type, none, or a type the route does not know.
RequestTypes == ValidTypes \cup {"", "pdf"}

\* body.url as new URL() sees it: given or not, its scheme and its host.
RequestUrls ==
    { [given |-> TRUE,  scheme |-> "https",  host |-> "aws.amazon.com"],
      [given |-> TRUE,  scheme |-> "",       host |-> "aws.amazon.com"],
      [given |-> TRUE,  scheme |-> "https",  host |-> ""],
      [given |-> TRUE,  scheme |-> "mailto", host |-> ""],
      [given |-> FALSE, scheme |-> "",       host |-> ""] }

SpecialSchemes == {"http", "https", "ftp", "ws", "wss"}

\* new URL(url) without a base throws for a string with no scheme, and for
\* a special scheme with an empty host.
NewURLThrows(url) ==
    \/ url.scheme = ""
    \/ url.scheme \in SpecialSchemes /\ url.host = ""

\* !type || !url
MissingFields(type, url) == type = "" \/ ~url.given

\* The switch on type: the script and the flag the url is passed under.
CrawlerCommand(type) ==
    CASE type = "blog"     -> [script |-> "crawlers/aws_blogs_crawler.py",   flag |-> "--url"]
      [] type = "video"    -> [script |-> "crawlers/aws_youtube_crawler.py", flag |-> "--video-url"]
      [] type = "playlist" -> [script |-> "crawlers/aws_youtube_crawler.py", flag |-> "--playlist-url"]

NoProcess == [state |-> "none"]

\* The promise the route awaits, before resolve is called.
Pending == [settled |-> FALSE]

\* A bug: a result slot that every call overwrites, instead of a promise.
Resolve_lastWins(promise, value) == value

\* resolve(value): the first call settles the promise, later calls do nothing.
Resolve(promise, value) == IF promise = Pending THEN value ELSE promise

Success(data) == [settled |-> TRUE, success |-> TRUE, data |-> data]

Failure(error) == [settled |-> TRUE, success |-> FALSE, error |-> error]

TimeoutError == <<"Crawl timeout after 2 minutes">>

\* What a crawler writes to stdout in one chunk: text without braces, one
\* JSON object, or one brace-delimited text that is not JSON (a Python dict).
StdoutChunks == {"text", "json", "dict"}

StderrChunks == {"Traceback"}

BraceAt(stdout) == {i \in 1..Len(stdout) : stdout[i] \in {"json", "dict"}}

\* stdout.match(/\{[\s\S]*\}/): from the first opening brace to the last
\* closing one, <<>> for null.
JsonMatch(stdout) ==
    IF BraceAt(stdout) = {}
    THEN <<>>
    ELSE LET first == CHOOSE i \in BraceAt(stdout) : \A j \in BraceAt(stdout) : i <= j
             last  == CHOOSE i \in BraceAt(stdout) : \A j \in BraceAt(stdout) : j <= i
         IN  SubSeq(stdout, first, last)

\* JSON.parse succeeds on exactly one JSON object.
JSONParses(text) == text = <<"json">>

EmptyData == [kind |-> "empty"]

ParsedData == [kind |-> "parsed"]

RawData(stdout) ==
    [kind |-> "raw", message |-> "Content crawled successfully", output |-> stdout]

\* A bug: output that does not parse fails the crawl.
CloseValue_parseErrorFails(code, stdout, stderr) ==
    IF code = "0"
    THEN IF JsonMatch(stdout) = <<>> THEN Success(EmptyData)
         ELSE IF JSONParses(JsonMatch(stdout)) THEN Success(ParsedData)
         ELSE Failure(<<"Invalid crawler output">>)
    ELSE Failure(IF stderr # <<>> THEN stderr ELSE <<ExitError(code)>>)

\* What the close handler resolves the promise with.
CloseValue(code, stdout, stderr) ==
    IF code = "0"
    THEN IF JsonMatch(stdout) = <<>> THEN Success(EmptyData)
         ELSE IF JSONParses(JsonMatch(stdout)) THEN Success(ParsedData)
         ELSE Success(RawData(stdout))
    ELSE Failure(IF stderr # <<>> THEN stderr ELSE <<ExitError(code)>>)

SuccessMessage(type) ==
    CASE type = "blog"     -> "Successfully crawled blog"
      [] type = "video"    -> "Successfully crawled video"
      [] type = "playlist" -> "Successfully crawled playlist"

\* The code after the await: the response made of the promise's value.
Respond(result, type) ==
    IF result.success
    THEN [status |-> 200, success |-> TRUE,
          message |-> SuccessMessage(type), data |-> result.data]
    ELSE [status |-> 500, success |-> FALSE,
          error |-> IF result.error # <<>> THEN result.error ELSE <<"Crawl failed">>]

\* A call of resolve(value), and the continuation of the await if this call
\* settled the promise.
Settle(value) ==
    /\ crawlResult' = Resolve(crawlResult, value)
    /\ IF crawlResult = Pending /\ crawlResult' # Pending
       THEN /\ crawlResponse' = Respond(crawlResult', crawlRequest)
            /\ crawlAnswers' = crawlAnswers + 1
       ELSE UNCHANGED <<crawlResponse, crawlAnswers>>

\* A request answered before the promise is made: nothing is spawned.
Reject(status, error) ==
    /\ crawlResponse' = [status |-> status, error |-> <<error>>]
    /\ crawlAnswers' = 1
    /\ crawlRequest' = "none"
    /\ crawlerProcess' = NoProcess
    /\ crawlTimeout' = "none"
    /\ crawlResult' = Pending
    /\ crawlStdout' = <<>>
    /\ crawlStderr' = <<>>

\* The closure of the request before is at rest: its process has closed and
\* its timer has fired.
Quiescent ==
    /\ crawlerProcess.state \in {"none", "closed"}
    /\ crawlTimeout \in {"none", "fired"}

\* A bug: the url is not parsed before the crawler is spawned.
CustomCrawl_noUrlCheck(caller, type, url) ==
    LET gate == AuthGate(caller)
    IN  /\ Quiescent
        /\ UNCHANGED <<jobVars, storeVars, panelVars, limiterVars>>
        /\ IF gate # 0 THEN Reject(gate, AuthError(gate))
           ELSE IF MissingFields(type, url)
           THEN Reject(400, "Missing required fields: type and url")
           ELSE IF type \notin ValidTypes
           THEN Reject(400, "Invalid type. Must be: blog, video, or playlist")
           ELSE /\ crawlRequest' = type
                /\ crawlerProcess' = [state  |-> "running",
                                      script |-> CrawlerCommand(type).script,
                                      flag   |-> CrawlerCommand(type).flag]
                /\ crawlStdout' = <<>>
                /\ crawlStderr' = <<>>
                /\ crawlTimeout' = "pending"
                /\ crawlResult' = Pending
                /\ crawlResponse' = NoResponse
                /\ crawlAnswers' = 0

\* POST: the gate, the three checks, then spawn, the handlers and the timer.
CustomCrawl(caller, type, url) ==
    LET gate == AuthGate(caller)
    IN  /\ Quiescent
        /\ UNCHANGED <<jobVars, storeVars, panelVars, limiterVars>>
        /\ IF gate # 0 THEN Reject(gate, AuthError(gate))
           ELSE IF MissingFields(type, url)
           THEN Reject(400, "Missing required fields: type and url")
           ELSE IF type \notin ValidTypes
           THEN Reject(400, "Invalid type. Must be: blog, video, or playlist")
           ELSE IF NewURLThrows(url)
           THEN Reject(400, "Invalid URL format")
           ELSE /\ crawlRequest' = type
                /\ crawlerProcess' = [state  |-> "running",
                                      script |-> CrawlerCommand(type).script,
                                      flag   |-> CrawlerCommand(type).flag]
                /\ crawlStdout' = <<>>
                /\ crawlStderr' = <<>>
                /\ crawlTimeout' = "pending"
                /\ crawlResult' = Pending
                /\ crawlResponse' = NoResponse
                /\ crawlAnswers' = 0

\* A process writes until it has closed, killed or not.
Alive == crawlerProcess.state \in {"running", "killed"}

\* pythonProcess.stdout.on("data"): stdout += data.
CustomStdout(data) ==
    /\ Alive
    /\ Len(crawlStdout) < MaxOutput
    /\ crawlStdout' = Append(crawlStdout, data)
    /\ UNCHANGED <<crawlRequest, crawlerProcess, crawlStderr, crawlTimeout,
                   crawlResult, crawlResponse, crawlAnswers>>
    /\ UNCHANGED <<jobVars, storeVars, panelVars, limiterVars>>

\* pythonProcess.stderr.on("data"): stderr += data.
CustomStderr(data) ==
    /\ Alive
    /\ Len(crawlStderr) < MaxOutput
    /\ crawlStderr' = Append(crawlStderr, data)
    /\ UNCHANGED <<crawlRequest, crawlerProcess, crawlStdout, crawlTimeout,
                   crawlResult, crawlResponse, crawlAnswers>>
    /\ UNCHANGED <<jobVars, storeVars, panelVars, limiterVars>>

\* pythonProcess.on("close"): resolve with what the exit code and the
\* output say.
CustomClose(code) ==
    /\ Alive
    /\ crawlerProcess' = [crawlerProcess EXCEPT !.state = "closed"]
    /\ Settle(CloseValue(code, crawlStdout, crawlStderr))
    /\ UNCHANGED <<crawlRequest, crawlStdout, crawlStderr, crawlTimeout>>
    /\ UNCHANGED <<jobVars, storeVars, panelVars, limiterVars>>

\* pythonProcess.kill(): SIGTERM to a process that has not closed.
Kill(process) ==
    IF process.state = "running"
    THEN [process EXCEPT !.state = "killed"]
    ELSE process

\* A bug: the timer fails the request and leaves the process running.
CustomTimeout_noKill ==
    /\ crawlTimeout = "pending"
    /\ crawlTimeout' = "fired"
    /\ UNCHANGED crawlerProcess
    /\ Settle(Failure(TimeoutError))
    /\ UNCHANGED <<crawlRequest, crawlStdout, crawlStderr>>
    /\ UNCHANGED <<jobVars, storeVars, panelVars, limiterVars>>

\* The timer of 2 minutes, never cleared, fires: kill, then resolve with the
\* timeout error.
CustomTimeout ==
    /\ crawlTimeout = "pending"
    /\ crawlTimeout' = "fired"
    /\ crawlerProcess' = Kill(crawlerProcess)
    /\ Settle(Failure(TimeoutError))
    /\ UNCHANGED <<crawlRequest, crawlStdout, crawlStderr>>
    /\ UNCHANGED <<jobVars, storeVars, panelVars, limiterVars>>

(***************************************************************************)
(* The content store: table public.aws_content, the crawl runs that write  *)
(* candidates to it and the workers that score its rows.                   *)
(*                                                                         *)
(* The table and its UNIQUE(url) constraint are the schema's. The Python   *)
(* workers are not among the sources: isNew / upsert follow section 4.3 of *)
(* the specification and processBatch follows section 4.4.                 *)
(***************************************************************************)
\* The distinct urls the sources yield.
MaxUrls == 2

\* How many unprocessed rows one processBatch selects, at most.
BatchSize == 2

Urls == 1..MaxUrls

\* The title (and body) a crawl finds under a url: as before, or changed.
Titles == {"t1", "t2"}

Candidates == [url : Urls, title : Titles]

\* Two crawl runs write at the same time.
Runs == {"run1", "run2"}

\* A row as a crawl inserts it: not scored yet.
NewRow(candidate) ==
    [url |-> candidate.url, title |-> candidate.title,
     is_processed |-> FALSE, overall_quality_score |-> "null"]

RowsOf(table, url) == {i \in 1..Len(table) : table[i].url = url}

\* A bug: the url column without its UNIQUE constraint.
Insert_noConstraint(table, row) == Append(table, row)

\* INSERT INTO aws_content: url TEXT NOT NULL UNIQUE refuses a row whose url
\* a row of the table has (the statement fails, the table is as before).
Insert(table, row) ==
    IF RowsOf(table, row.url) # {}
    THEN table
    ELSE Append(table, row)

\* The row an upsert leaves where the url was stored: the candidate's title,
\* and a row whose title changed is to be scored again.
Merge(row, candidate) ==
    IF row.title = candidate.title
    THEN row
    ELSE [row EXCEPT !.title = candidate.title,
                     !.is_processed = FALSE,
                     !.overall_quality_score = "null"]

\* A bug: an upsert that inserts without looking for the url.
UpsertInto_appends(table, candidate) == Append(table, NewRow(candidate))

\* upsert(candidate) as one statement (INSERT ... ON CONFLICT (url) DO
\* UPDATE): the stored row of the url is updated, a new url is inserted.
UpsertInto(table, candidate) ==
    IF RowsOf(table, candidate.url) # {}
    THEN [i \in 1..Len(table) |->
             IF table[i].url = candidate.url
             THEN Merge(table[i], candidate)
             ELSE table[i]]
    ELSE Insert(table, NewRow(candidate))

NotLooked == [looked |-> FALSE]

\* isNew(candidate): a run reads whether the url is stored and keeps the answer.
IsNew(run, candidate) ==
    /\ isNew[run] = NotLooked
    /\ isNew' = [isNew EXCEPT ![run] =
                    [looked |-> TRUE, candidate |-> candidate,
                     new |-> RowsOf(aws_content, candidate.url) = {}]]
    /\ UNCHANGED <<aws_content, batch>>
    /\ UNCHANGED <<jobVars, customVars, panelVars, limiterVars>>

\* The run acts on what isNew answered, whatever was written since: a new
\* candidate is inserted, a known one is skipped.
InsertNew(run) ==
    /\ isNew[run] # NotLooked
    /\ aws_content' = IF isNew[run].new
                      THEN Insert(aws_content, NewRow(isNew[run].candidate))
                      ELSE aws_content
    /\ isNew' = [isNew EXCEPT ![run] = NotLooked]
    /\ UNCHANGED batch
    /\ UNCHANGED <<jobVars, customVars, panelVars, limiterVars>>

\* upsert(candidate) by any run.
Upsert(candidate) ==
    /\ aws_content' = UpsertInto(aws_content, candidate)
    /\ UNCHANGED <<isNew, batch>>
    /\ UNCHANGED <<jobVars, customVars, panelVars, limiterVars>>

Unprocessed(table) == {i \in 1..Len(table) : ~table[i].is_processed}

Min(a, b) == IF a <= b THEN a ELSE b

NotSelected == [selected |-> FALSE]

\* The worker of a process-content job that has not closed.
Processing(jobId) ==
    /\ pythonProcess[jobId] = "running"
    /\ jobId \in DOMAIN activeCrawls
    /\ activeCrawls[jobId].operation = "process-content"

\* processBatch selects up to BatchSize rows with is_processed = false.
SelectBatch(jobId, rows) ==
    /\ Processing(jobId)
    /\ batch[jobId] = NotSelected
    /\ rows \subseteq Unprocessed(aws_content)
    /\ Cardinality(rows) = Min(BatchSize, Cardinality(Unprocessed(aws_content)))
    /\ batch' = [batch EXCEPT ![jobId] =
                    [selected |-> TRUE, todo |-> rows,
                     attempted |-> Cardinality(rows)]]
    /\ UNCHANGED <<aws_content, isNew>>
    /\ UNCHANGED <<jobVars, customVars, panelVars, limiterVars>>

Selected(jobId) == batch[jobId] # NotSelected

\* A bug: a failed analysis marks the row processed, with no score.
AnalysisFailed_marks(jobId, row) ==
    /\ Processing(jobId)
    /\ Selected(jobId)
    /\ row \in batch[jobId].todo
    /\ aws_content' = [aws_content EXCEPT ![row].is_processed = TRUE]
    /\ batch' = [batch EXCEPT ![jobId].todo = @ \ {row}]
    /\ UNCHANGED isNew
    /\ UNCHANGED <<jobVars, customVars, panelVars, limiterVars>>

\* The analysis of a row answered: its score and is_processed = true are
\* written together.
AnalysisScored(jobId, row) ==
    /\ Processing(jobId)
    /\ Selected(jobId)
    /\ row \in batch[jobId].todo
    /\ aws_content' = [aws_content EXCEPT ![row].is_processed = TRUE,
                                          ![row].overall_quality_score = "scored"]
    /\ batch' = [batch EXCEPT ![jobId].todo = @ \ {row}]
    /\ UNCHANGED isNew
    /\ UNCHANGED <<jobVars, customVars, panelVars, limiterVars>>

\* The analysis of a row failed or timed out, retries included: the row is
\* left as it is, for a later batch.
AnalysisFailed(jobId, row) ==
    /\ Processing(jobId)
    /\ Selected(jobId)
    /\ row \in batch[jobId].todo
    /\ UNCHANGED aws_content
    /\ batch' = [batch EXCEPT ![jobId].todo = @ \ {row}]
    /\ UNCHANGED isNew
    /\ UNCHANGED <<jobVars, customVars, panelVars, limiterVars>>

(***************************************************************************)
(* CrawlControlPanel: the page that starts a job and polls its status.     *)
(* A request of the page and the handling of its answer are one step.      *)
(***************************************************************************)
\* useState's initial value.
IdleStatus == [isRunning |-> FALSE, operation |-> "null", progress |-> 0, message |-> ""]

NoInterval == [state |-> "none"]

\* The operations the page's buttons start.
PanelOperations == RequestOperations \cap ValidOperations

\* `Error: Failed to start crawl: ${response.statusText}`
StartErrorMessage(code) ==
    CASE code = 400 -> "Error: Failed to start crawl: Bad Request"
      [] code = 401 -> "Error: Failed to start crawl: Unauthorized"
      [] code = 403 -> "Error: Failed to start crawl: Forbidden"
      [] OTHER      -> "Error: Failed to start crawl: Internal Server Error"

\* `Crawl failed: ${data.error}`
FailedMessage(error) ==
    CASE error = "Process exited with code 1"    -> "Crawl failed: Process exited with code 1"
      [] error = "Process exited with code null" -> "Crawl failed: Process exited with code null"
      [] OTHER                                   -> "Crawl failed: undefined"

\* startCrawl: the page shows the job as running at 0, posts the start and,
\* on an ok answer with success, sets the poller up; any other answer ends
\* in the catch block.
StartCrawl(caller, operation) ==
    /\ ~panelStatus.isRunning
    /\ StartRoute(caller, operation)
    /\ IF response'.status = 200 /\ response'.success
       THEN /\ panelStatus' = [isRunning |-> TRUE, operation |-> operation, progress |-> 0,
                               message |-> StartingMessage(operation)]
            /\ interval' = [state |-> "active", jobId |-> response'.jobId]
       ELSE /\ panelStatus' = [isRunning |-> FALSE, operation |-> "null", progress |-> 0,
                               message |-> StartErrorMessage(response'.status)]
            /\ UNCHANGED interval
    /\ lastProgress' = 0

Polling == interval.state = "active"

\* data.progress || 50: a reported 0 is falsy.
Shown(progress) == IF progress = 0 THEN 50 ELSE progress

\* What one tick of the poller does with the answer of the status route.
OnStatus(prev, answer) ==
    IF answer.status # 200 THEN prev
    ELSE LET data == answer.body
         IN  IF data.status = "completed"
             THEN [isRunning |-> FALSE, operation |-> "null", progress |-> 100,
                   message |-> "Crawl completed successfully!", stats |-> data.stats]
             ELSE IF data.status = "failed"
             THEN [isRunning |-> FALSE, operation |-> "null", progress |-> 0,
                   message |-> FailedMessage(data.error)]
             ELSE IF data.status = "running"
             THEN [prev EXCEPT !.progress = Shown(data.progress),
                               !.message = data.message]
             ELSE prev

\* clearInterval is called in the completed and the failed branch only.
StopsPolling(answer) ==
    /\ answer.status = 200
    /\ answer.body.status \in {"completed", "failed"}

\* One tick of setInterval: fetch the status of the job, handle the answer.
Poll(caller) ==
    /\ Polling
    /\ StatusRoute(caller, interval.jobId)
    /\ panelStatus' = OnStatus(panelStatus, response')
    /\ interval' = IF StopsPolling(response')
                   THEN [interval EXCEPT !.state = "cleared"]
                   ELSE interval
    /\ lastProgress' = IF response'.status = 200 /\ response'.body.status = "running"
                       THEN response'.body.progress
                       ELSE lastProgress

\* fetch or response.json() throws: the catch block clears the interval
\* and leaves the status as it is.
PollThrows ==
    /\ Polling
    /\ interval' = [interval EXCEPT !.state = "cleared"]
    /\ UNCHANGED <<panelStatus, lastProgress>>
    /\ UNCHANGED <<jobVars, customVars, storeVars, limiterVars>>

(***************************************************************************)
(* The RateLimiter.  The Python crawlers are not among the sources: the    *)
(* limiter follows section 4.1 of the specification (acquire delays until  *)
(* the next permitted slot of the source), with the budget of the          *)
(* documentation crawler, 1 request per second.  The start route spawns    *)
(* one Python process per job, so each job's crawlers have a limiter of    *)
(* their own: the sources show no channel between the processes but their  *)
(* output pipes.                                                           *)
(***************************************************************************)
\* Seconds between two requests to one source.
BudgetInterval == 1

\* The seconds the clock runs for.
MaxTime == 3

SourceKeys == {"aws-docs", "aws-blogs"}

\* The crawlers of a job run in the process spawned for it.
Crawlers == JobIds

Never == 0 - 1

NotWaiting == [key |-> "none"]

Max(a, b) == IF a >= b THEN a ELSE b

\* The time acquire(key) grants: now, or when the key's budget is free again
\* in the caller's process.
Grant(crawler, key) == Max(clock, nextFree[crawler][key])

\* acquire(key) is called: the caller is given a time and blocks until then.
Acquire(crawler, key) ==
    /\ waiting[crawler] = NotWaiting
    /\ Grant(crawler, key) <= MaxTime
    /\ waiting' = [waiting EXCEPT ![crawler] =
                        [key |-> key, at |-> Grant(crawler, key)]]
    /\ nextFree' = [nextFree EXCEPT ![crawler][key] =
                        Grant(crawler, key) + BudgetInterval]
    /\ UNCHANGED <<clock, lastDispatch>>
    /\ UNCHANGED <<jobVars, customVars, storeVars, panelVars>>

\* acquire returns at the granted time and the request is dispatched.
Dispatch(crawler) ==
    /\ waiting[crawler] # NotWaiting
    /\ waiting[crawler].at = clock
    /\ lastDispatch' = [lastDispatch EXCEPT ![waiting[crawler].key] = clock]
    /\ waiting' = [waiting EXCEPT ![crawler] = NotWaiting]
    /\ UNCHANGED <<clock, nextFree>>
    /\ UNCHANGED <<jobVars, customVars, storeVars, panelVars>>

\* A second passes, once every request granted for this second is out.
Tick ==
    /\ clock < MaxTime
    /\ \A crawler \in Crawlers :
          waiting[crawler] # NotWaiting => waiting[crawler].at > clock
    /\ clock' = clock + 1
    /\ UNCHANGED <<nextFree, waiting, lastDispatch>>
    /\ UNCHANGED <<jobVars, customVars, storeVars, panelVars>>

(***************************************************************************)
(* The system.                                                             *)
(***************************************************************************)
Init ==
    /\ activeCrawls = <<>>
    /\ pythonProcess = [id \in JobIds |-> "none"]
    /\ cleanupTimer = [id \in JobIds |-> "none"]
    /\ response = NoResponse
    /\ crawlRequest = "none"
    /\ crawlerProcess = NoProcess
    /\ crawlStdout = <<>>
    /\ crawlStderr = <<>>
    /\ crawlTimeout = "none"
    /\ crawlResult = Pending
    /\ crawlResponse = NoResponse
    /\ crawlAnswers = 0
    /\ aws_content = <<>>
    /\ isNew = [run \in Runs |-> NotLooked]
    /\ batch = [jobId \in JobIds |-> NotSelected]
    /\ panelStatus = IdleStatus
    /\ interval = NoInterval
    /\ lastProgress = 0
    /\ clock = 0
    /\ nextFree = [crawler \in Crawlers |-> [key \in SourceKeys |-> 0]]
    /\ waiting = [crawler \in Crawlers |-> NotWaiting]
    /\ lastDispatch = [key \in SourceKeys |-> Never]

DoStart == \E caller \in Callers, operation \in RequestOperations : Start(caller, operation)
DoGetStatus == \E caller \in Callers, jobId \in QueryJobIds : GetStatus(caller, jobId)
DoStdoutData == \E jobId \in JobIds, message \in Chunks : StdoutData(jobId, message)
DoStderrData == \E jobId \in JobIds : StderrData(jobId)
DoClose == \E jobId \in JobIds, code \in ExitCodes : Close(jobId, code)
DoPurge == \E jobId \in JobIds : Purge(jobId)

Next ==
    \/ DoStart
    \/ DoGetStatus
    \/ DoStdoutData
    \/ DoStderrData
    \/ DoClose
    \/ DoPurge

Spec == Init /\ [][Next]_vars

\* Node's timers fire while the server process lives; nothing obliges a
\* worker to write or to exit.
FairSpec == Spec /\ \A jobId \in JobIds : WF_vars(Purge(jobId))

DoCustomCrawl ==
    \E caller \in Callers, type \in RequestTypes, url \in RequestUrls :
        CustomCrawl(caller, type, url)
DoCustomStdout == \E data \in StdoutChunks : CustomStdout(data)
DoCustomStderr == \E data \in StderrChunks : CustomStderr(data)
DoCustomClose == \E code \in ExitCodes : CustomClose(code)

CustomNext ==
    \/ DoCustomCrawl
    \/ DoCustomStdout
    \/ DoCustomStderr
    \/ DoCustomClose
    \/ CustomTimeout

\* The ad-hoc crawl route on its own: it shares no state with the job store.
CustomSpec == Init /\ [][CustomNext]_vars

\* Node's timers fire while the server process lives; nothing obliges a
\* crawler to write or to exit.
FairCustomSpec == CustomSpec /\ WF_vars(CustomTimeout)

DoStartCrawl == \E caller \in Callers, operation \in PanelOperations : StartCrawl(caller, operation)
DoPoll == \E caller \in Callers : Poll(caller)

PanelNext ==
    \/ DoStartCrawl
    \/ DoPoll
    \/ PollThrows
    \/ DoStdoutData
    \/ DoClose
    \/ DoPurge

\* The page, the two routes it calls and the workers of its jobs.
PanelSpec == Init /\ [][PanelNext]_vars

\* A browser's interval fires while the page is open, and Node's timers
\* fire while the server process lives; nothing obliges a worker to write
\* or to exit.
FairPanelSpec ==
    /\ PanelSpec
    /\ WF_vars(DoPoll)
    /\ \A jobId \in JobIds : WF_vars(Purge(jobId))

DoAcquire == \E crawler \in Crawlers, key \in SourceKeys : Acquire(crawler, key)
DoDispatch == \E crawler \in Crawlers : Dispatch(crawler)

LimiterNext ==
    \/ DoAcquire
    \/ DoDispatch
    \/ Tick

\* The crawlers of the jobs calling the limiter.
LimiterSpec == Init /\ [][LimiterNext]_vars

GateNext ==
    \/ DoStart
    \/ DoGetStatus
    \/ DoClose
    \/ DoCustomCrawl
    \/ DoCustomClose
    \/ CustomTimeout

\* The three admin routes side by side: the requests they take and the
\* events that end what they spawned.
GateSpec == Init /\ [][GateNext]_vars

DoIsNew == \E run \in Runs, candidate \in Candidates : IsNew(run, candidate)
DoInsertNew == \E run \in Runs : InsertNew(run)
DoUpsert == \E candidate \in Candidates : Upsert(candidate)

StoreNext ==
    \/ DoIsNew
    \/ DoInsertNew
    \/ DoUpsert

\* The crawl runs writing the content store.
StoreSpec == Init /\ [][StoreNext]_vars

DoStartProcessing == \E caller \in Admins : Start(caller, "process-content")
DoSelectBatch ==
    \E jobId \in JobIds, rows \in SUBSET (1..Len(aws_content)) : SelectBatch(jobId, rows)
DoAnalysisScored ==
    \E jobId \in JobIds, row \in 1..Len(aws_content) : AnalysisScored(jobId, row)
DoAnalysisFailed ==
    \E jobId \in JobIds, row \in 1..Len(aws_content) : AnalysisFailed(jobId, row)

ProcessNext ==
    \/ DoStartProcessing
    \/ DoUpsert
    \/ DoSelectBatch
    \/ DoAnalysisScored
    \/ DoAnalysisFailed
    \/ DoClose

\* process-content jobs: the route starts and closes them, their workers
\* score the rows that crawls keep storing.
ProcessSpec == Init /\ [][ProcessNext]_vars

(***************************************************************************)
(* Properties of the job store.                                            *)
(***************************************************************************)
Terminal == {"completed", "failed"}

Stored(jobId) == jobId \in DOMAIN activeCrawls

IsRunning(jobId) == Stored(jobId) /\ activeCrawls[jobId].status = "running"

IsTerminal(jobId) == Stored(jobId) /\ activeCrawls[jobId].status \in Terminal

Completed(jobId) == Stored(jobId) /\ activeCrawls[jobId].status = "completed"

\* C1: a job's status only moves running -> completed or running -> failed.
\* In every step, a stored job that is completed or failed keeps its status
\* as long as it is stored, a stored job's status is one of the three, and
\* the id of a job whose worker has closed never again carries another
\* status (no record is re-created as running under it).
StatusMonotonic ==
    [][\A jobId \in JobIds :
          /\ Stored(jobId)' =>
                activeCrawls'[jobId].status \in {"running"} \cup Terminal
          /\ IsTerminal(jobId) /\ Stored(jobId)' =>
                activeCrawls'[jobId].status = activeCrawls[jobId].status
          /\ pythonProcess[jobId] = "closed" /\ Stored(jobId)' =>
                Stored(jobId) /\ activeCrawls'[jobId].status = activeCrawls[jobId].status
      ]_vars

\* C1 witness: one job has completed and another has failed, both still stored.
StatusMonotonicWitness ==
    \E j1 \in JobIds, j2 \in JobIds :
        /\ Stored(j1) /\ activeCrawls[j1].status = "completed"
        /\ Stored(j2) /\ activeCrawls[j2].status = "failed"

\* C2: the progress a poller reads for a job is non-decreasing while the job
\* is running, whatever the order of the worker's stdout chunks: no step
\* takes a running job to a smaller progress while it stays running.
ProgressNonDecreasing ==
    [][\A jobId \in JobIds :
          IsRunning(jobId) /\ IsRunning(jobId)' =>
              activeCrawls'[jobId].progress >= activeCrawls[jobId].progress
      ]_vars

\* C3: a start whose operation is missing or not a valid name, from a caller
\* who passes the authentication gate, is answered 400 with the
\* invalid-operation error and changes neither the job store nor the
\* workers nor the timers.
InvalidOperationRejected ==
    [][\A caller \in Admins, operation \in RequestOperations :
          operation \notin ValidOperations /\ Start(caller, operation) =>
              /\ response'.status = 400
              /\ response'.error = InvalidOperationError
              /\ UNCHANGED <<activeCrawls, pythonProcess, cleanupTimer>>
      ]_vars

\* C3 witness: the invalid-operation answer was given while a job was running.
InvalidOperationRejectedWitness ==
    /\ response.status = 400
    /\ response.error = InvalidOperationError
    /\ \E jobId \in JobIds : IsRunning(jobId)

\* C4: a status query by a caller who passes the gate, for an id that no
\* start has issued (an id uuidv4 has not handed out, or one outside its
\* range) or whose record the timer has purged, is answered 404 without a
\* job body; for an id in the store it is answered 200 with that job's
\* fields.
StatusLookup ==
    [][\A jobId \in JobIds \cup {UnknownJobId}, caller \in Admins :
          pythonProcess' = pythonProcess /\ GetStatus(caller, jobId) =>
              /\ ( \/ jobId = UnknownJobId
                   \/ pythonProcess[jobId] = "none"
                   \/ cleanupTimer[jobId] = "fired" ) =>
                     /\ response'.status = 404
                     /\ ~Has(response', "body")
              /\ (jobId # UnknownJobId /\ Stored(jobId)) =>
                     /\ response'.status = 200
                     /\ DOMAIN response'.body = DOMAIN activeCrawls[jobId] \cup {"success"}
                     /\ \A f \in DOMAIN activeCrawls[jobId] :
                            response'.body[f] = activeCrawls[jobId][f]
              /\ response'.status \in {200, 404}
      ]_vars

\* C4 witness: not-found was answered after a job had been purged.
StatusLookupWitness ==
    /\ response.status = 404
    /\ \E jobId \in JobIds : cleanupTimer[jobId] = "fired"

\* C5: a completed job has progress 100 and a stats bundle; a running job
\* has no stats bundle.
CompletedHasStats ==
    \A jobId \in DOMAIN activeCrawls :
        LET job == activeCrawls[jobId]
        IN  /\ job.status = "completed" => job.progress = 100 /\ Has(job, "stats")
            /\ job.status = "running" => ~Has(job, "stats")

\* C5 witness: a job has completed while another is running past its start.
CompletedHasStatsWitness ==
    \E j1 \in JobIds, j2 \in JobIds :
        /\ Stored(j1) /\ activeCrawls[j1].status = "completed"
        /\ IsRunning(j2) /\ activeCrawls[j2].progress = 90

\* C6: a close with an exit code other than 0 (an error exit or the null of
\* a worker killed by a signal) takes the stored job to failed with the
\* error string made from that code; and in every state a stored job has an
\* error string exactly when its status is failed.
AbnormalExitFails ==
    /\ [](\A jobId \in DOMAIN activeCrawls :
            Has(activeCrawls[jobId], "error") <=> activeCrawls[jobId].status = "failed")
    /\ [][\A jobId \in JobIds, code \in ExitCodes :
            code # "0" /\ pythonProcess'[jobId] # pythonProcess[jobId] /\ Close(jobId, code) =>
                /\ Stored(jobId)'
                /\ activeCrawls'[jobId].status = "failed"
                /\ activeCrawls'[jobId].error = ExitError(code)
         ]_vars

\* C6 witness: a stored job has failed on a signal exit and carries its error.
AbnormalExitFailsWitness ==
    \E jobId \in JobIds :
        /\ Stored(jobId)
        /\ activeCrawls[jobId].status = "failed"
        /\ Has(activeCrawls[jobId], "error")
        /\ activeCrawls[jobId].error = ExitError("null")

\* C7: no step removes the record of a running job, and a job whose worker
\* has been spawned and has not closed is in the store, running, so that a
\* status query for it is not answered 404.
NeverPurgedWhileRunning ==
    /\ [](\A jobId \in JobIds : pythonProcess[jobId] = "running" => IsRunning(jobId))
    /\ [][\A jobId \in JobIds :
            Stored(jobId) /\ ~Stored(jobId)' => activeCrawls[jobId].status \in Terminal
         ]_vars
    /\ [][\A caller \in Admins, jobId \in JobIds :
            pythonProcess[jobId] = "running" /\ GetStatus(caller, jobId) =>
                response'.status = 200 /\ response'.body.status = "running"
         ]_vars

\* C7 witness: a job has been purged while another job is still running.
NeverPurgedWhileRunningWitness ==
    \E j1 \in JobIds, j2 \in JobIds :
        /\ cleanupTimer[j1] = "fired" /\ ~Stored(j1)
        /\ IsRunning(j2)

\* C8: a job that has reached completed or failed is eventually out of the
\* store; the step that removes it is the firing of its own timer, which
\* removes that id alone and fires once; and a status query for a purged id
\* is answered 404.
TerminalEventuallyPurged ==
    /\ \A jobId \in JobIds : IsTerminal(jobId) ~> ~Stored(jobId)
    /\ [][\A jobId \in JobIds :
            /\ Stored(jobId) /\ ~Stored(jobId)' =>
                  /\ cleanupTimer[jobId] = "pending" /\ cleanupTimer'[jobId] = "fired"
                  /\ DOMAIN activeCrawls' = DOMAIN activeCrawls \ {jobId}
                  /\ \A other \in DOMAIN activeCrawls' :
                         activeCrawls'[other] = activeCrawls[other]
            /\ cleanupTimer[jobId] = "fired" =>
                  cleanupTimer'[jobId] = "fired" /\ ~Stored(jobId)'
         ]_vars
    /\ [][\A caller \in Admins, jobId \in JobIds :
            cleanupTimer[jobId] = "fired" /\ GetStatus(caller, jobId) =>
                response'.status = 404
         ]_vars

\* C8 witness: a job was purged while another job stayed stored, and a
\* status query was answered not-found.
TerminalEventuallyPurgedWitness ==
    /\ response.status = 404
    /\ \E j1 \in JobIds, j2 \in JobIds :
          /\ cleanupTimer[j1] = "fired" /\ ~Stored(j1)
          /\ Stored(j2)

\* C9: every accepted job eventually reaches completed or failed, also when
\* its worker never exits (an overall job timeout fails it).
EveryJobTerminates ==
    \A jobId \in JobIds :
        (pythonProcess[jobId] = "running") ~> (cleanupTimer[jobId] # "none")

\* C10: a start answered 200 with a job id has, in the same step, put the
\* record under that id with status running and progress 0 and spawned the
\* worker, under an id no worker event was handled for; and no stdout or
\* close event is handled for an id whose record is not in the store.
StartReturnsAfterInsert ==
    /\ [][\A caller \in Callers, operation \in RequestOperations :
            response'.status = 200 /\ Start(caller, operation) =>
                LET jobId == response'.jobId
                IN  /\ pythonProcess[jobId] = "none" /\ cleanupTimer[jobId] = "none"
                    /\ jobId \notin DOMAIN activeCrawls
                    /\ jobId \in DOMAIN activeCrawls'
                    /\ activeCrawls'[jobId].status = "running"
                    /\ activeCrawls'[jobId].progress = 0
                    /\ activeCrawls'[jobId].operation = operation
                    /\ pythonProcess'[jobId] = "running"
         ]_vars
    /\ [][\A jobId \in JobIds :
            ~Stored(jobId) =>
                /\ \A message \in Chunks : ~StdoutData(jobId, message)
                /\ \A code \in ExitCodes : ~Close(jobId, code)
         ]_vars

\* C10 witness: the last request was a successful start and the job it
\* created is running at progress 0, its worker spawned.
StartReturnsAfterInsertWitness ==
    /\ response.status = 200
    /\ Has(response, "jobId")
    /\ IsRunning(response.jobId)
    /\ activeCrawls[response.jobId].progress = 0
    /\ pythonProcess[response.jobId] = "running"

\* C11: an event of one job's worker (stdout, stderr, close, its purge
\* timer) leaves every other job as it is: another job that is stored stays
\* stored with the same record (status, progress, message, stats, error),
\* one that is not stored stays out, and its worker and timer are untouched.
OtherJobUnchanged(other) ==
    /\ Stored(other) <=> Stored(other)'
    /\ Stored(other) => activeCrawls'[other] = activeCrawls[other]
    /\ pythonProcess'[other] = pythonProcess[other]
    /\ cleanupTimer'[other] = cleanupTimer[other]

WorkerEventsIsolated ==
    [][\A other \in JobIds :
          ~OtherJobUnchanged(other) =>
              \A jobId \in JobIds \ {other} :
                  /\ \A message \in Chunks : ~StdoutData(jobId, message)
                  /\ ~StderrData(jobId)
                  /\ \A code \in ExitCodes : ~Close(jobId, code)
                  /\ ~Purge(jobId)
      ]_vars

\* C11 witness: one job has been purged after failing while another job,
\* started before that, is still running with the progress it had reached.
WorkerEventsIsolatedWitness ==
    \E j1 \in JobIds, j2 \in JobIds :
        /\ j1 # j2
        /\ cleanupTimer[j1] = "fired" /\ ~Stored(j1)
        /\ IsRunning(j2) /\ activeCrawls[j2].progress = 50

\* C12: a status query changes neither the job store nor any worker or
\* timer, whoever asks and whatever id is asked for; and it can be answered
\* in every state, without any worker event having to happen first.
StatusQueryPureRead ==
    /\ [][<<activeCrawls, pythonProcess, cleanupTimer>>' # <<activeCrawls, pythonProcess, cleanupTimer>> =>
            \A caller \in Callers, jobId \in QueryJobIds : ~GetStatus(caller, jobId)
         ]_vars
    /\ [](\A caller \in Callers, jobId \in QueryJobIds : ENABLED GetStatus(caller, jobId))

\* C12 witness: a status query reported a completed job, which is still stored.
StatusQueryPureReadWitness ==
    /\ response.status = 200
    /\ Has(response, "body")
    /\ response.body.status = "completed"
    /\ IsTerminal(response.body.jobId)

Balanced(stats) ==
    stats.total_processed = stats.successful + stats.failed + stats.duplicates

CrawlOperations == {"daily-update", "full-crawl"}

RunningCrawls ==
    {jobId \in JobIds : IsRunning(jobId) /\ activeCrawls[jobId].operation \in CrawlOperations}

\* C17: in every state at most one job that crawls the sources is running.
CrawlsMutuallyExclusive == Cardinality(RunningCrawls) <= 1

\* The (progress, message) pairs the route writes to a running job.
StagePairs(operation) ==
    { <<0, StartingMessage(operation)>>,
      <<25, "Crawling AWS Blogs...">>,
      <<50, "Crawling YouTube videos...">>,
      <<75, "Crawling AWS Documentation...">>,
      <<90, "Processing content with AI...">> }

\* C22: in every state the progress and the message of every stored running
\* job, and of every status response that reports a running job, are one
\* of the five stage pairs.
RunningShowsStage ==
    /\ \A jobId \in JobIds :
          IsRunning(jobId) =>
              <<activeCrawls[jobId].progress, activeCrawls[jobId].message>>
                  \in StagePairs(activeCrawls[jobId].operation)
    /\ response.status = 200 /\ Has(response, "body") /\ response.body.status = "running" =>
          <<response.body.progress, response.body.message>>
              \in StagePairs(response.body.operation)

\* C22 witness: a running job is at the documentation stage, reached after
\* a later stage had been shown for another job.
RunningShowsStageWitness ==
    \E j1 \in JobIds, j2 \in JobIds :
        /\ IsRunning(j1) /\ activeCrawls[j1].progress = 75
        /\ IsRunning(j2) /\ activeCrawls[j2].progress = 90
        /\ response.status = 200 /\ Has(response, "body") /\ response.body.progress = 75

\* What a snapshot of a failed or a completed job shows.
TerminalSnapshot(crawlJob) ==
    /\ crawlJob.status = "failed" =>
          crawlJob.progress = 0 /\ crawlJob.message = "Crawl failed"
    /\ crawlJob.status = "completed" => crawlJob.progress = 100

\* C23: a close with a code other than 0 leaves the stored job with
\* progress 0 and the message 'Crawl failed', a close with code 0 leaves it
\* with progress 100, whatever its progress and message were; and in every
\* state a failed job has progress 0 and that message, a completed job has
\* progress 100, in the store and in a status response.
TerminalProgressFixed ==
    /\ [][\A jobId \in JobIds, code \in ExitCodes :
              Stored(jobId) /\ Close(jobId, code) =>
                  /\ activeCrawls'[jobId].status \in Terminal
                  /\ TerminalSnapshot(activeCrawls'[jobId])
         ]_vars
    /\ [](\A jobId \in JobIds : Stored(jobId) => TerminalSnapshot(activeCrawls[jobId]))
    /\ [](response.status = 200 /\ Has(response, "body") => TerminalSnapshot(response.body))

\* C23 witness: a status response reports a failed job, progress 0, while
\* another job is running at the last stage.
TerminalProgressFixedWitness ==
    /\ response.status = 200 /\ Has(response, "body")
    /\ response.body.status = "failed" /\ response.body.progress = 0
    /\ \E jobId \in JobIds : IsRunning(jobId) /\ activeCrawls[jobId].progress = 90

\* C26: a stderr chunk, and a stdout chunk that includes none of the four
\* markers, leave the job store as it is (the status, progress, message,
\* stats and error of every job).
UnmatchedOutputIgnored ==
    [][\A jobId \in JobIds :
          StderrData(jobId) \/ StdoutData(jobId, {}) => activeCrawls' = activeCrawls
      ]_vars

\* C26 witness: a job whose worker can write is at the YouTube stage, and
\* another has completed.
UnmatchedOutputIgnoredWitness ==
    \E j1 \in JobIds, j2 \in JobIds :
        /\ IsRunning(j1) /\ activeCrawls[j1].progress = 50
        /\ pythonProcess[j1] = "running"
        /\ Completed(j2)

\* C29: an id whose purge timer has fired is not in the job store, in
\* that state and after every step: no step stores a record under it,
\* starts a worker under it or arms a timer for it again.
PurgedNeverReturns ==
    /\ [](\A jobId \in JobIds : cleanupTimer[jobId] = "fired" => ~Stored(jobId))
    /\ [][\A jobId \in JobIds :
              cleanupTimer[jobId] = "fired" =>
                  /\ jobId \notin DOMAIN activeCrawls'
                  /\ cleanupTimer'[jobId] = "fired"
                  /\ pythonProcess'[jobId] = "closed"
         ]_vars

\* C29 witness: a job was purged and the last start was answered with the
\* id of another job, which is running.
PurgedNeverReturnsWitness ==
    \E j1 \in JobIds, j2 \in JobIds :
        /\ cleanupTimer[j1] = "fired"
        /\ IsRunning(j2)
        /\ response.status = 200 /\ Has(response, "jobId") /\ response.jobId = j2

(***************************************************************************)
(* Properties of the ad-hoc crawl route.                                   *)
(***************************************************************************)
TimeoutResponse == [status |-> 500, success |-> FALSE, error |-> TimeoutError]

\* C13: when the timer of an ad-hoc crawl fires and the crawler has not
\* closed, the crawler is sent the kill signal and the request is answered,
\* in that step, 500 with the timeout error; and in every state where the
\* timer has fired the promise is settled and the request has its answer.
TimeoutKillsAndFails ==
    /\ [][crawlerProcess.state = "running" /\ CustomTimeout =>
              /\ crawlerProcess'.state = "killed"
              /\ crawlResult = Pending
              /\ crawlResponse' = TimeoutResponse
              /\ crawlAnswers' = 1
         ]_vars
    /\ [](crawlTimeout = "fired" =>
              /\ crawlResult # Pending
              /\ crawlResponse # NoResponse
              /\ crawlAnswers = 1
              /\ crawlerProcess.state # "running")

\* C13 witness: the timer fired on a crawler that had written output and
\* not closed; it is killed and the answer is the timeout error.
TimeoutKillsAndFailsWitness ==
    /\ crawlTimeout = "fired"
    /\ crawlerProcess.state = "killed"
    /\ crawlStdout # <<>>
    /\ crawlResponse = TimeoutResponse

ChecksPass(type, url) ==
    /\ ~MissingFields(type, url)
    /\ type \in ValidTypes
    /\ ~NewURLThrows(url)

\* C14: a request of a caller who passes the gate that misses type or url,
\* names a type outside blog, video, playlist, or carries a url that does
\* not parse is answered 400 with an error and leaves no process and no
\* timer; a request that passes the three checks starts the crawler of its
\* type; and a crawler process comes to run only in the step of a request
\* that passes the three checks.
InvalidCustomRejected ==
    /\ [][\A caller \in Admins, type \in RequestTypes, url \in RequestUrls :
              CustomCrawl(caller, type, url) =>
                  IF ChecksPass(type, url)
                  THEN /\ crawlerProcess'.state = "running"
                       /\ crawlerProcess'.script = CrawlerCommand(type).script
                       /\ crawlerProcess'.flag = CrawlerCommand(type).flag
                  ELSE /\ crawlResponse'.status = 400
                       /\ crawlResponse'.error # <<>>
                       /\ crawlerProcess' = NoProcess
                       /\ crawlTimeout' = "none"
         ]_vars
    /\ [][crawlerProcess.state # "running" /\ crawlerProcess'.state = "running" =>
              \E caller \in Admins, type \in ValidTypes, url \in RequestUrls :
                  ChecksPass(type, url) /\ CustomCrawl(caller, type, url)
         ]_vars

\* C14 witness: a request was answered that its url is invalid, and no
\* process exists.
InvalidCustomRejectedWitness ==
    /\ crawlResponse.status = 400
    /\ crawlResponse.error = <<"Invalid URL format">>
    /\ crawlerProcess = NoProcess

\* C24: once the promise of an ad-hoc crawl is settled, neither a close nor
\* the timer changes its value, the response or the number of responses
\* (a close after the timeout, the timer after a close); no request is
\* given more than one response, a request whose crawler was spawned has
\* its response exactly when its promise is settled, and every such
\* request is given its response.
FirstOutcomeWins ==
    /\ [][crawlResult # Pending /\ (CustomTimeout \/ \E code \in ExitCodes : CustomClose(code)) =>
              UNCHANGED <<crawlResult, crawlResponse, crawlAnswers>>
         ]_vars
    /\ [](crawlAnswers <= 1)
    /\ [](crawlerProcess.state # "none" =>
              /\ crawlAnswers = 1 <=> crawlResult # Pending
              /\ crawlResult # Pending => crawlResponse = Respond(crawlResult, crawlRequest))
    /\ (crawlerProcess.state = "running" /\ crawlAnswers = 0) ~> (crawlAnswers = 1)

\* C24 witness: the crawler closed with success first and the timer fired
\* after it; the answer is still the success.
FirstOutcomeWinsWitness ==
    /\ crawlTimeout = "fired"
    /\ crawlerProcess.state = "closed"
    /\ crawlResponse.status = 200
    /\ crawlAnswers = 1

\* C25: a close before the timer fires, with code 0, is answered 200 with
\* success: empty data when stdout has no brace-delimited text, the parsed
\* object when that text parses, and the generic message with the whole
\* stdout when it does not; a close with another code is answered 500 with
\* the stderr text, or with the exit-code message when stderr is empty.
CloseDecidesOutcome ==
    [][\A code \in ExitCodes :
          crawlTimeout = "pending" /\ CustomClose(code) =>
              IF code = "0"
              THEN /\ crawlResponse'.status = 200
                   /\ crawlResponse'.success
                   /\ crawlResponse'.message = SuccessMessage(crawlRequest)
                   /\ crawlResponse'.data =
                        IF BraceAt(crawlStdout) = {} THEN EmptyData
                        ELSE IF JsonMatch(crawlStdout) = <<"json">> THEN ParsedData
                        ELSE RawData(crawlStdout)
              ELSE /\ crawlResponse'.status = 500
                   /\ ~crawlResponse'.success
                   /\ crawlResponse'.error =
                        IF crawlStderr # <<>> THEN crawlStderr ELSE <<ExitError(code)>>
      ]_vars

\* C25 witness: before the timer fired, a crawler that wrote two brace
\* texts was answered with the generic message and the raw output.
CloseDecidesOutcomeWitness ==
    /\ crawlTimeout = "pending"
    /\ crawlResponse.status = 200
    /\ crawlResponse.data.kind = "raw"
    /\ Len(crawlResponse.data.output) = MaxOutput

\* The callers who are no admins: no user, or a user whose role is not admin.
NonAdmins == {caller \in Callers : ~caller.user \/ caller.role # "admin"}

Refused(answer) == answer.status \in {401, 403} /\ DOMAIN answer = {"status", "error"}

\* C30: a request of a caller who is no admin is answered 401 or 403 by
\* each of the three routes, whatever its operation, jobId, type or url:
\* the start changes neither the job store nor a worker nor a timer, the
\* status query answers with no snapshot, the ad-hoc crawl leaves no
\* crawler process.
GateKeepsNonAdminsOut ==
    [][\A caller \in NonAdmins :
          /\ \A operation \in RequestOperations :
                Start(caller, operation) =>
                    /\ Refused(response')
                    /\ UNCHANGED <<activeCrawls, pythonProcess, cleanupTimer>>
          /\ \A jobId \in QueryJobIds :
                pythonProcess' = pythonProcess /\ GetStatus(caller, jobId) =>
                    Refused(response')
          /\ \A type \in RequestTypes, url \in RequestUrls :
                CustomCrawl(caller, type, url) =>
                    /\ Refused(crawlResponse')
                    /\ crawlerProcess' = NoProcess
      ]_vars

(***************************************************************************)
(* Properties of CrawlControlPanel.                                        *)
(***************************************************************************)
\* C27: in every step in which the page shows a job as running before and
\* after, and the progress the status route reported last does not go
\* down, the progress the page shows does not go down.
PanelProgressNonDecreasing ==
    [][panelStatus.isRunning /\ panelStatus'.isRunning /\ lastProgress' >= lastProgress =>
          panelStatus'.progress >= panelStatus.progress
      ]_vars

\* C28: for every job, once its worker has closed, a poller that polls it
\* eventually stops and the page no longer shows a running job, whether
\* the poller finds the job completed or failed or the job was purged first.
PollerEventuallyStops ==
    \A jobId \in JobIds :
        [](Polling /\ interval.jobId = jobId /\ pythonProcess[jobId] = "closed" =>
              <>(~Polling /\ ~panelStatus.isRunning))

(***************************************************************************)
(* Properties of the content store.                                        *)
(***************************************************************************)
\* C16: a completed process-content job whose worker selected its batch and
\* went through all of it carries stats whose count of processed items is
\* the number of rows the worker attempted.
StatsReportAttempted ==
    \A jobId \in JobIds :
        /\ Completed(jobId)
        /\ activeCrawls[jobId].operation = "process-content"
        /\ Selected(jobId)
        /\ batch[jobId].todo = {}
        => /\ Has(activeCrawls[jobId], "stats")
           /\ activeCrawls[jobId].stats.total_processed = batch[jobId].attempted

\* C18: in every state no two rows of aws_content have the same url.
UrlUnique ==
    \A i, j \in 1..Len(aws_content) :
        aws_content[i].url = aws_content[j].url => i = j

\* C18 witness: every url is stored while a run still holds the answer
\* "new" for one of them, read before the other run stored it.
UrlUniqueWitness ==
    /\ Len(aws_content) = MaxUrls
    /\ \E run \in Runs :
          /\ isNew[run] # NotLooked
          /\ isNew[run].new
          /\ RowsOf(aws_content, isNew[run].candidate.url) # {}

RECURSIVE UpsertAll(_, _)
\* One crawl run: the candidates its sources yield, upserted in order.
UpsertAll(table, yield) ==
    IF yield = <<>>
    THEN table
    ELSE UpsertAll(UpsertInto(table, Head(yield)), Tail(yield))

\* What the sources may yield to one run.
Yields == UNION {[1..n -> Candidates] : n \in 0..MaxUrls}

ProcessedHasScore ==
    \A i \in 1..Len(aws_content) :
        aws_content[i].is_processed => aws_content[i].overall_quality_score # "null"

\* C20 witness: a worker went through a batch of BatchSize rows, one row
\* is scored and one, whose analysis failed, is still unprocessed.
ProcessedHasScoreWitness ==
    /\ \E jobId \in JobIds :
          /\ Selected(jobId)
          /\ batch[jobId].todo = {}
          /\ batch[jobId].attempted = BatchSize
    /\ \E i \in 1..Len(aws_content) : aws_content[i].is_processed
    /\ \E i \in 1..Len(aws_content) : ~aws_content[i].is_processed

====
